---- MODULE Spec2Model ----
(***************************************************************************)
(* Model of the mobile_endpoints handlers (api/invoice.py, api/utils.py).  *)
(*                                                                         *)
(* The handlers run on top of the frappe framework.  What the framework    *)
(* does is modelled only as far as the handlers rely on it: a document     *)
(* store keyed by name, a permission oracle, a query executor that         *)
(* filters, orders and slices, and save / insert / submit / delete, each   *)
(* of which may also reject the call (validation hooks), which leaves the  *)
(* store as it was.                                                        *)
(*                                                                         *)
(* Python values.  An optional payload field is <<>> when the key is       *)
(* absent (or None) and <<v>> when it is present with value v.  A value    *)
(* is falsy as in Python: 0, the empty string, the empty list.  Texts that *)
(* are searched are sequences of one-character strings.  Dates are day     *)
(* numbers (ISO date strings order the same way).  Amounts are exact;      *)
(* total_commissions_and_taxes is kept in units of 1/10000.                *)
(* Fields the handlers copy through without reading (item_code, item_name, *)
(* customer, pamper_commission, posting_time, lock_update) are left out.   *)
(***************************************************************************)
EXTENDS Integers, Sequences, FiniteSets, TLC

VARIABLES
    invoices,   \* the "Invoice Form" table: name -> document
    nextName,   \* the next name the framework's naming hands out
    lookup,     \* the Supplier / Customer / Item tables: doctype -> set of rows
    last,       \* the last call: its arguments, the error raised, the response
    pager       \* a client requesting get_invoices pages 1, 2, 3, ...

vars == <<invoices, nextName, lookup, last, pager>>

----------------------------------------------------------------------------
\* Bounds of the model.

\* Names the framework hands out in one run (documents ever created).
MaxInvoices == 2
\* Rows of a table drawn for the query specifications.
MaxRows == 3

\* Program constants.
DefaultCommissionRate == 5
DefaultTaxRate == 15
MaxInvoicePageSize == 100
MaxLookupPageSize == 200

----------------------------------------------------------------------------
\* Python values.

None == <<>>
Some(v) == <<v>>

\* `x or d` for an optional number, string, list.
TruthyNum(o) == o # None /\ o[1] # 0
TruthyStr(o) == o # None /\ o[1] # ""
TruthySeq(o) == o # None /\ o[1] # <<>>
OrNum(o, d) == IF TruthyNum(o) THEN o[1] ELSE d
OrSeq(o, d) == IF TruthySeq(o) THEN o[1] ELSE d

\* flt of an optional number: None converts to 0.
flt(o) == IF o = None THEN 0 ELSE o[1]

RECURSIVE SumSeq(_)
SumSeq(s) == IF s = <<>> THEN 0 ELSE Head(s) + SumSeq(Tail(s))

RowTotals(rows) == [i \in 1..Len(rows) |-> rows[i].total]

----------------------------------------------------------------------------
\* The framework: permissions and errors.

Ptypes == {"read", "write", "create", "submit", "delete"}

\* Users by the permissions their roles hold on Invoice Form.
Perms ==
    [ manager |-> Ptypes,
      clerk   |-> {"read", "write", "create"},
      guest   |-> {} ]

Users == DOMAIN Perms

has_permission(user, ptype) == ptype \in Perms[user]

NoData == [none |-> TRUE]
NoOut == [none |-> TRUE]

Call(op, user, name, data) == [user |-> user, op |-> op, name |-> name, data |-> data]

Reply(call, err, out) ==
    [user |-> call.user, op |-> call.op, name |-> call.name, data |-> call.data,
     err |-> err, out |-> out]

\* frappe.throw: the call ends with the error and nothing is written.
Throw(call, err) ==
    /\ last' = Reply(call, err, NoOut)
    /\ UNCHANGED <<invoices, nextName, lookup, pager>>

Exists(name) == name \in DOMAIN invoices

----------------------------------------------------------------------------
\* api/invoice.py: the handlers that write.

\* One row of the items child table, as create_invoice_form stores it.
CreateQty(it) == flt(Some(OrNum(it.qty, OrNum(it.quantity, 0))))
CreatePrice(it) == flt(Some(OrNum(it.price, 0)))

CreateLineTotal(it) ==
    IF flt(it.total) # 0 THEN flt(it.total) ELSE CreateQty(it) * CreatePrice(it)

CreateRow(it) ==
    [total |-> flt(Some(OrNum(Some(CreateLineTotal(it)), 0))),
     qty |-> CreateQty(it), price |-> CreatePrice(it)]

CreateGrandTotal(items) ==
    SumSeq([i \in 1..Len(items) |-> CreateLineTotal(items[i])])

CreateCommissionRate(data) == flt(Some(OrNum(data.commission_rate, DefaultCommissionRate)))
CreateTaxRate(data) == flt(Some(OrNum(data.tax_rate, DefaultTaxRate)))

\* total_commission + taxes_on_commission, in units of 1/10000:
\* total_commission = g * c / 100, taxes_on_commission = total_commission * t / 100.
CommissionsAndTaxes(grand_total, commission_rate, tax_rate) ==
    LET total_commission100 == grand_total * commission_rate
        taxes_on_commission10000 == total_commission100 * tax_rate
    IN  total_commission100 * 100 + taxes_on_commission10000

\* `if not posting_date or not supplier` and `if not items`.
MissingRequired(data) == ~TruthyNum(data.posting_date) \/ ~TruthyStr(data.supplier)
\* (a create_invoice_form that lets an empty items list through)
NoItemsMutant(items) == FALSE
NoItems(items) == items = <<>>

create_invoice_form(user, data, accepted) ==
    LET call == Call("create_invoice_form", user, 0, data)
        items == OrSeq(data.items, <<>>)
        grand_total == CreateGrandTotal(items)
        doc == [items         |-> [i \in 1..Len(items) |-> CreateRow(items[i])],
                grand_total   |-> grand_total,
                posting_date  |-> data.posting_date[1],
                supplier      |-> data.supplier[1],
                supplier_name |-> OrSeq(data.supplier_name, <<>>),
                total_commissions_and_taxes |->
                    CommissionsAndTaxes(grand_total, CreateCommissionRate(data),
                                        CreateTaxRate(data)),
                docstatus     |-> 0]
    IN  IF MissingRequired(data)
        THEN Throw(call, "ValidationError")
        ELSE IF NoItems(items)
        THEN Throw(call, "ValidationError")
        ELSE IF ~accepted
        THEN Throw(call, "FrameworkError")
        ELSE /\ nextName <= MaxInvoices
             /\ invoices' = [n \in DOMAIN invoices \cup {nextName} |->
                               IF n = nextName THEN doc ELSE invoices[n]]
             /\ nextName' = nextName + 1
             /\ last' = Reply([call EXCEPT !.name = nextName], "",
                              [grand_total |-> doc.grand_total,
                               total_commissions_and_taxes |->
                                   doc.total_commissions_and_taxes])
             /\ UNCHANGED <<lookup, pager>>

\* One row of the items child table, as update_invoice stores it.
UpdateRow(it) ==
    LET qty == OrNum(it.qty, OrNum(it.quantity, 0))
        price == OrNum(it.price, 0)
    IN  [total |-> OrNum(it.total, qty * price), qty |-> qty, price |-> price]

\* (an update_invoice that assigns every key the payload carries, empty or not,
\* and appends the payload's rows to the rows already there)
UpdatedDocMutant(doc, payload) ==
    LET d1 == IF payload.posting_date # None
              THEN [doc EXCEPT !.posting_date = payload.posting_date[1]] ELSE doc
        d2 == IF payload.supplier # None
              THEN [d1 EXCEPT !.supplier = payload.supplier[1]] ELSE d1
        d3 == IF payload.supplier_name # None
              THEN [d2 EXCEPT !.supplier_name = payload.supplier_name[1]] ELSE d2
    IN  IF payload.items # None
        THEN [d3 EXCEPT !.items = doc.items \o
                 [i \in 1..Len(payload.items[1]) |-> UpdateRow(payload.items[1][i])]]
        ELSE d3

\* The document update_invoice saves.
UpdatedDoc(doc, payload) ==
    LET d1 == IF TruthyNum(payload.posting_date)
              THEN [doc EXCEPT !.posting_date = payload.posting_date[1]] ELSE doc
        d2 == IF TruthyStr(payload.supplier)
              THEN [d1 EXCEPT !.supplier = payload.supplier[1]] ELSE d1
        d3 == IF TruthySeq(payload.supplier_name)
              THEN [d2 EXCEPT !.supplier_name = payload.supplier_name[1]] ELSE d2
    IN  IF payload.items # None
        THEN [d3 EXCEPT !.items =
                 [i \in 1..Len(payload.items[1]) |-> UpdateRow(payload.items[1][i])]]
        ELSE d3

update_invoice(user, name, data, accepted) ==
    LET call == Call("update_invoice", user, name, data)
    IN  IF name = 0 THEN Throw(call, "ValidationError")
        ELSE IF ~Exists(name) THEN Throw(call, "DoesNotExistError")
        ELSE IF ~has_permission(user, "write") THEN Throw(call, "PermissionError")
        ELSE IF ~accepted THEN Throw(call, "FrameworkError")
        ELSE /\ invoices' = [invoices EXCEPT ![name] = UpdatedDoc(invoices[name], data)]
             /\ last' = Reply(call, "", [name |-> name])
             /\ UNCHANGED <<nextName, lookup, pager>>

\* (a submit_invoice that refuses only cancelled documents)
IsDraftMutant(doc) == doc.docstatus # 2
\* The guard of submit_invoice: only a draft is submitted.
IsDraft(doc) == doc.docstatus = 0

submit_invoice(user, name, accepted) ==
    LET call == Call("submit_invoice", user, name, NoData)
    IN  IF name = 0 THEN Throw(call, "ValidationError")
        ELSE IF ~Exists(name) THEN Throw(call, "DoesNotExistError")
        ELSE IF ~has_permission(user, "submit") THEN Throw(call, "PermissionError")
        ELSE IF ~IsDraft(invoices[name]) THEN Throw(call, "ValidationError")
        ELSE IF ~accepted THEN Throw(call, "FrameworkError")
        ELSE /\ invoices' = [invoices EXCEPT ![name].docstatus = 1]
             /\ last' = Reply(call, "", [name |-> name, docstatus |-> 1])
             /\ UNCHANGED <<nextName, lookup, pager>>

delete_invoice(user, name, accepted) ==
    LET call == Call("delete_invoice", user, name, NoData)
    IN  IF name = 0 THEN Throw(call, "ValidationError")
        ELSE IF ~Exists(name) THEN Throw(call, "DoesNotExistError")
        ELSE IF ~has_permission(user, "delete") THEN Throw(call, "PermissionError")
        ELSE IF ~accepted THEN Throw(call, "FrameworkError")
        ELSE /\ invoices' = [n \in DOMAIN invoices \ {name} |-> invoices[n]]
             /\ last' = Reply(call, "", [deleted |-> TRUE])
             /\ UNCHANGED <<nextName, lookup, pager>>

StatusMap(docstatus) ==
    CASE docstatus = 0 -> "draft"
      [] docstatus = 1 -> "submitted"
      [] docstatus = 2 -> "cancelled"
      [] OTHER -> "draft"

get_invoice_details(user, name) ==
    LET call == Call("get_invoice_details", user, name, NoData)
    IN  IF name = 0 THEN Throw(call, "ValidationError")
        ELSE IF ~Exists(name) THEN Throw(call, "DoesNotExistError")
        ELSE IF ~has_permission(user, "read") THEN Throw(call, "PermissionError")
        ELSE /\ last' = Reply(call, "",
                    [items |-> invoices[name].items,
                     id |-> name,
                     amount |-> invoices[name].grand_total,
                     status |-> StatusMap(invoices[name].docstatus),
                     tax |-> invoices[name].total_commissions_and_taxes])
             /\ UNCHANGED <<invoices, nextName, lookup, pager>>

----------------------------------------------------------------------------
\* Text and number conversions (frappe.utils.cstr / cint, str methods).

Max(a, b) == IF a >= b THEN a ELSE b
Min(a, b) == IF a <= b THEN a ELSE b

Uppers == <<"A", "B", "I">>
Lowers == <<"a", "b", "i">>
LowerChar(c) ==
    IF \E i \in 1..Len(Uppers) : Uppers[i] = c
    THEN Lowers[CHOOSE i \in 1..Len(Uppers) : Uppers[i] = c]
    ELSE c
LowerText(t) == [i \in 1..Len(t) |-> LowerChar(t[i])]

RECURSIVE LStrip(_)
LStrip(t) == IF t # <<>> /\ Head(t) = " " THEN LStrip(Tail(t)) ELSE t
RECURSIVE RStrip(_)
RStrip(t) == IF t # <<>> /\ t[Len(t)] = " " THEN RStrip(SubSeq(t, 1, Len(t) - 1)) ELSE t
Strip(t) == RStrip(LStrip(t))

\* `needle in hay` for Python strings.
Contains(hay, needle) ==
    \E i \in 0..(Len(hay) - Len(needle)) :
        \A j \in 1..Len(needle) : hay[i + j] = needle[j]

Digits == <<"0", "1", "2", "3", "4", "5", "6", "7", "8", "9">>
IsDigit(c) == \E i \in 1..Len(Digits) : Digits[i] = c
DigitValue(c) == (CHOOSE i \in 1..Len(Digits) : Digits[i] = c) - 1
AllDigits(t) == \A i \in 1..Len(t) : IsDigit(t[i])

RECURSIVE DigitsValue(_)
DigitsValue(t) ==
    IF t = <<>> THEN 0
    ELSE DigitsValue(SubSeq(t, 1, Len(t) - 1)) * 10 + DigitValue(t[Len(t)])

\* int(float(s)) for a string: surrounding blanks ignored, an optional sign,
\* digits with an optional fraction, truncated toward zero; anything else
\* raises, which cint turns into 0.
ParseNumber(s) ==
    LET t == Strip(s)
        signed == t # <<>> /\ Head(t) \in {"-", "+"}
        body == IF signed THEN Tail(t) ELSE t
        dots == {i \in 1..Len(body) : body[i] = "."}
        dot == IF dots = {} THEN Len(body) + 1 ELSE CHOOSE i \in dots : \A j \in dots : i <= j
        whole == SubSeq(body, 1, dot - 1)
        frac == SubSeq(body, dot + 1, Len(body))
        valid == /\ AllDigits(whole) /\ AllDigits(frac)
                 /\ (whole # <<>> \/ frac # <<>>)
        value == DigitsValue(whole)
    IN  IF ~valid THEN 0
        ELSE IF signed /\ Head(t) = "-" THEN 0 - value ELSE value

\* A request parameter as Python receives it: an int, None or a string.
PyInt(v) == [v |-> v, s |-> <<>>, t |-> "int"]
PyStr(s) == [v |-> 0, s |-> s, t |-> "str"]
PyNone == [v |-> 0, s |-> <<>>, t |-> "none"]

cint(x) ==
    CASE x.t = "int" -> x.v
      [] x.t = "str" -> ParseNumber(x.s)
      [] OTHER -> 0

\* The framework's name of invoice n, as text: "I1", "I2", ...
NameText(n) == <<"I", Digits[n + 1]>>

----------------------------------------------------------------------------
\* Pagination arithmetic shared by the list endpoints.

ClampPage(page) == Max(1, cint(page))
\* (a clamp that lets a page size of 0 through)
ClampPageSizeMutant(page_size, cap) == Min(cap, Max(0, cint(page_size)))
ClampPageSize(page_size, cap) == Max(1, Min(cap, cint(page_size)))
\* (an offset that counts pages from 0)
PageStartMutant(page, page_size) == page * page_size
PageStart(page, page_size) == (page - 1) * page_size

\* get_all(start=, page_length=): the rows of an ordered result from offset
\* start, at most page_length of them.
Slice(rows, start, page_length) ==
    IF start >= Len(rows) THEN <<>>
    ELSE SubSeq(rows, start + 1, Min(Len(rows), start + page_length))

----------------------------------------------------------------------------
\* api/invoice.py: get_invoices.

ListQuery(start_date, end_date, supplier, page, page_size, search) ==
    [supplier |-> supplier, page |-> page, page_size |-> page_size,
     start_date |-> start_date, end_date |-> end_date, search |-> search]

\* The filters list: posting_date >= start_date, posting_date <= end_date,
\* supplier = supplier, each only when the parameter is given and non-empty.
MatchesFilters(doc, q) ==
    /\ TruthyNum(q.start_date) => doc.posting_date >= q.start_date[1]
    /\ TruthyNum(q.end_date) => doc.posting_date <= q.end_date[1]
    /\ TruthyStr(q.supplier) => doc.supplier = q.supplier[1]

Filtered(q) == {n \in DOMAIN invoices : MatchesFilters(invoices[n], q)}

\* order_by = "posting_date desc, creation desc"; names are handed out in
\* creation order.
NewerFirst(x, y) ==
    \/ invoices[x].posting_date > invoices[y].posting_date
    \/ invoices[x].posting_date = invoices[y].posting_date /\ x > y

RECURSIVE NewestFirst(_)
\* The documents named in S as the query returns them.
NewestFirst(S) ==
    IF S = {} THEN <<>>
    ELSE LET first == CHOOSE x \in S : \A y \in S \ {x} : NewerFirst(x, y)
         IN  <<first>> \o NewestFirst(S \ {first})

\* The post-filter: s in name.lower() or s in supplier_name.lower().
SearchHit(n, search) ==
    LET s == LowerText(Strip(search[1]))
    IN  \/ Contains(LowerText(NameText(n)), s)
        \/ Contains(LowerText(invoices[n].supplier_name), s)

HasMore(start, shown, total_count) == start + shown < total_count

GetInvoicesResponse(q) ==
    LET page == ClampPage(q.page)
        page_size == ClampPageSize(q.page_size, MaxInvoicePageSize)
        start == PageStart(page, page_size)
        fetched == Slice(NewestFirst(Filtered(q)), start, page_size)
        Hit(n) == SearchHit(n, q.search)
        rows == IF TruthySeq(q.search) THEN SelectSeq(fetched, Hit) ELSE fetched
        total_count == Cardinality(Filtered(q))
    IN  [rows |-> rows, page |-> page, page_size |-> page_size,
         start |-> start,
         total_count |-> total_count,
         has_more |-> HasMore(start, Len(rows), total_count)]

get_invoices(user, q) ==
    LET call == Call("get_invoices", user, 0, q)
    IN  IF ~has_permission(user, "read") THEN Throw(call, "PermissionError")
        ELSE /\ last' = Reply(call, "", GetInvoicesResponse(q))
             /\ UNCHANGED <<invoices, nextName, lookup, pager>>

----------------------------------------------------------------------------
\* api/utils.py: get_supplier, get_customer, get_items.

\* Collation order of the characters the model uses (case-insensitive).
Alphabet == <<" ", "0", "1", "2", "3", "4", "5", "6", "7", "8", "9", "a", "b", "i", "x">>
Rank(c) == CHOOSE i \in 1..Len(Alphabet) : Alphabet[i] = LowerChar(c)

RECURSIVE TextLess(_, _)
TextLess(a, b) ==
    IF b = <<>> THEN FALSE
    ELSE IF a = <<>> THEN TRUE
    ELSE IF Rank(Head(a)) # Rank(Head(b)) THEN Rank(Head(a)) < Rank(Head(b))
    ELSE TextLess(Tail(a), Tail(b))

\* field LIKE '%<search stripped>%', under the database's case-insensitive collation.
Like(field, search) == Contains(LowerText(field), LowerText(Strip(search[1])))

\* order_by = "<title> asc, name asc" on rows selected as "name as id, <title> as name".
TitleThenId(x, y) ==
    \/ TextLess(x.name, y.name)
    \/ ~TextLess(y.name, x.name) /\ TextLess(x.id, y.id)

RECURSIVE Ascending(_)
Ascending(S) ==
    IF S = {} THEN <<>>
    ELSE LET first == CHOOSE x \in S : \A y \in S \ {x} : TitleThenId(x, y)
         IN  <<first>> \o Ascending(S \ {first})

PageQuery(page, page_size, search) ==
    [page |-> page, page_size |-> page_size, search |-> search]

\* (a fetch of page_size rows, with no extra row to look ahead)
FetchLengthMutant(page_size) == page_size
\* page_length = page_size + 1: one extra row tells whether more follow.
FetchLength(page_size) == page_size + 1

\* {"id": id or name, "name": name or id}
ShapeRow(r) == [name |-> IF r.name # <<>> THEN r.name ELSE r.id, id |-> r.id]

\* What the three handlers do with the selected rows: fetch from the offset,
\* set has_more, cut the extra row, shape the rows.
LookupResponse(selected, q) ==
    LET page == ClampPage(q.page)
        page_size == ClampPageSize(q.page_size, MaxLookupPageSize)
        start == PageStart(page, page_size)
        fetched == Slice(Ascending(selected), start, FetchLength(page_size))
        has_more == Len(fetched) > page_size
        rows == IF has_more THEN SubSeq(fetched, 1, page_size) ELSE fetched
    IN  [rows |-> [i \in 1..Len(rows) |-> ShapeRow(rows[i])],
         page |-> page, page_size |-> page_size, start |-> start,
         has_more |-> has_more]

\* Suppliers with is_farmer = 1 that the search text, if any, matches.
SelectedSuppliers(search) ==
    { [name |-> r.supplier_name, id |-> r.name] :
        r \in { r \in lookup.Supplier :
                  /\ r.is_farmer = 1
                  /\ TruthySeq(search) =>
                        Like(r.supplier_name, search) \/ Like(r.name, search) } }

SelectedCustomers(search) ==
    { [name |-> r.customer_name, id |-> r.name] :
        r \in { r \in lookup.Customer :
                  TruthySeq(search) =>
                        Like(r.customer_name, search) \/ Like(r.name, search) } }

SelectedItems(search) ==
    { [name |-> r.item_name, id |-> r.name] :
        r \in { r \in lookup.Item :
                  /\ r.disabled = 0
                  /\ TruthySeq(search) =>
                        \/ Like(r.item_name, search) \/ Like(r.name, search)
                        \/ Like(r.item_code, search) } }

get_supplier(user, q) ==
    LET call == Call("get_supplier", user, 0, q)
    IN  IF ~has_permission(user, "read") THEN Throw(call, "PermissionError")
        ELSE /\ last' = Reply(call, "", LookupResponse(SelectedSuppliers(q.search), q))
             /\ UNCHANGED <<invoices, nextName, lookup, pager>>

get_customer(user, q) ==
    LET call == Call("get_customer", user, 0, q)
    IN  IF ~has_permission(user, "read") THEN Throw(call, "PermissionError")
        ELSE /\ last' = Reply(call, "", LookupResponse(SelectedCustomers(q.search), q))
             /\ UNCHANGED <<invoices, nextName, lookup, pager>>

get_items(user, q) ==
    LET call == Call("get_items", user, 0, q)
    IN  IF ~has_permission(user, "read") THEN Throw(call, "PermissionError")
        ELSE /\ last' = Reply(call, "", LookupResponse(SelectedItems(q.search), q))
             /\ UNCHANGED <<invoices, nextName, lookup, pager>>

----------------------------------------------------------------------------
\* Request payloads the specifications draw from.

Item(qty, quantity, price, total) ==
    [total |-> total, qty |-> qty, quantity |-> quantity, price |-> price]

ItemA == Item(Some(2), None, Some(3), None)        \* no total: 2 * 3
ItemB == Item(None, Some(1), Some(4), Some(5))     \* a total that is not qty * price
ItemC == Item(Some(1), None, Some(2), Some(0))     \* a zero total: 1 * 2

Payload(posting_date, supplier, supplier_name, items, commission_rate, tax_rate) ==
    [items |-> items, commission_rate |-> commission_rate, tax_rate |-> tax_rate,
     posting_date |-> posting_date, supplier |-> supplier,
     supplier_name |-> supplier_name]

NameArgs == 0..MaxInvoices

\* A store the handlers may start from: empty, or holding one document that
\* was cancelled through the framework's own UI.
CancelledDoc ==
    [items |-> <<>>, grand_total |-> 0,
     posting_date |-> 1, supplier |-> "S1", supplier_name |-> <<>>,
     total_commissions_and_taxes |-> 0, docstatus |-> 2]

NoPager ==
    [page |-> 0, q |-> NoData, total_count |-> 0, phase |-> "idle", got |-> <<>>]
NoLookup == [Supplier |-> {}, Customer |-> {}, Item |-> {}]
NoCall == Reply(Call("none", "guest", 0, NoData), "", NoOut)

----------------------------------------------------------------------------
\* Spec: the document life cycle, with every user and the error paths.

LifecycleCreates ==
    { Payload(Some(1), Some("S1"), None, Some(<<ItemA>>), None, None),
      Payload(None, Some("S1"), None, Some(<<ItemA>>), None, None),
      Payload(Some(1), Some(""), None, Some(<<ItemA>>), None, None),
      Payload(Some(1), None, None, Some(<<ItemA>>), None, None),
      Payload(Some(1), Some("S1"), None, None, None, None),
      Payload(Some(1), Some("S1"), None, Some(<<>>), None, None),
      Payload(None, None, None, None, None, None) }

LifecycleUpdates ==
    { Payload(None, None, None, None, None, None),
      Payload(None, None, None, Some(<<>>), None, None) }

Init ==
    /\ \/ invoices = <<>> /\ nextName = 1
       \/ invoices = <<CancelledDoc>> /\ nextName = 2
    /\ lookup = NoLookup
    /\ last = NoCall
    /\ pager = NoPager

Create == \E user \in Users, data \in LifecycleCreates, accepted \in BOOLEAN :
    create_invoice_form(user, data, accepted)

Update == \E user \in Users, name \in NameArgs, data \in LifecycleUpdates, accepted \in BOOLEAN :
    update_invoice(user, name, data, accepted)

Submit == \E user \in Users, name \in NameArgs, accepted \in BOOLEAN :
    submit_invoice(user, name, accepted)

Delete == \E user \in Users, name \in NameArgs, accepted \in BOOLEAN :
    delete_invoice(user, name, accepted)

Details == \E user \in Users, name \in NameArgs :
    get_invoice_details(user, name)

Next == Create \/ Update \/ Submit \/ Delete \/ Details

Spec == Init /\ [][Next]_vars

----------------------------------------------------------------------------
\* SpecEdit: update_invoice by a user who holds every permission, over
\* payloads that set, omit or blank each field.

EditCreates ==
    { Payload(Some(1), Some("S1"), Some(<<"a">>), Some(<<ItemA>>), None, None) }

EditUpdates ==
    { Payload(None, None, None, None, None, None),
      Payload(None, Some(""), None, None, None, None),
      Payload(Some(2), None, None, None, None, None),
      Payload(None, Some("S2"), None, None, None, None),
      Payload(None, None, Some(<<"b">>), None, None, None),
      Payload(None, None, None, Some(<<>>), None, None),
      Payload(Some(2), Some("S2"), Some(<<"b">>), Some(<<ItemB, ItemC>>), None, None) }

EditCreate == \E data \in EditCreates, accepted \in BOOLEAN :
    create_invoice_form("manager", data, accepted)

EditUpdate == \E name \in NameArgs, data \in EditUpdates :
    update_invoice("manager", name, data, TRUE)

NextEdit == EditCreate \/ EditUpdate

SpecEdit == Init /\ [][NextEdit]_vars

----------------------------------------------------------------------------
\* SpecTotals: the totals create_invoice_form computes and update_invoice
\* leaves behind, over payloads that give, omit or zero the rates.

TotalsCreates ==
    { Payload(Some(1), Some("S1"), None, Some(<<ItemA, ItemB>>), None, None),
      Payload(Some(1), Some("S1"), None, Some(<<ItemC>>), Some(0), Some(20)),
      Payload(Some(1), Some("S1"), None, Some(<<ItemA>>), Some(10), Some(0)),
      Payload(Some(1), Some("S1"), None, Some(<<ItemB>>), Some(10), Some(20)) }

TotalsUpdates ==
    { Payload(None, None, None, None, None, None),
      Payload(None, None, None, Some(<<>>), None, None),
      Payload(None, None, None, Some(<<ItemB, ItemC>>), None, None) }

TotalsCreate == \E data \in TotalsCreates, accepted \in BOOLEAN :
    create_invoice_form("manager", data, accepted)

TotalsUpdate == \E name \in NameArgs, data \in TotalsUpdates, accepted \in BOOLEAN :
    update_invoice("manager", name, data, accepted)

TotalsDetails == \E name \in NameArgs : get_invoice_details("manager", name)

NextTotals == TotalsCreate \/ TotalsUpdate \/ TotalsDetails

SpecTotals == Init /\ [][NextTotals]_vars

----------------------------------------------------------------------------
\* Claims about the handlers that write.

MutatingOps == {"create_invoice_form", "update_invoice", "submit_invoice", "delete_invoice"}

RequiredPtype(op) ==
    CASE op = "create_invoice_form" -> "create"
      [] op = "update_invoice" -> "write"
      [] op = "submit_invoice" -> "submit"
      [] op = "delete_invoice" -> "delete"
      [] OTHER -> "read"

\* A row's total as the claims define it: the supplied total, or qty * price
\* when no non-zero total is supplied.
ClaimedQty(it) ==
    IF it.qty # None /\ it.qty[1] # 0 THEN it.qty[1]
    ELSE IF it.quantity # None THEN it.quantity[1] ELSE 0
ClaimedPrice(it) == IF it.price # None THEN it.price[1] ELSE 0
ClaimedTotal(it) ==
    IF it.total # None /\ it.total[1] # 0 THEN it.total[1]
    ELSE ClaimedQty(it) * ClaimedPrice(it)

\* C1: every stored invoice's grand_total equals the sum of the totals of
\* its item rows, after any sequence of create_invoice_form and
\* update_invoice calls.
C1_GrandTotalIsSumOfRows ==
    \A n \in DOMAIN invoices :
        invoices[n].grand_total = SumSeq(RowTotals(invoices[n].items))

\* C2: a document's docstatus changes only by a successful submit_invoice on
\* that document, from 0 to 1; submit_invoice succeeds only on a draft, and on
\* a document with docstatus 1 or 2 it raises and leaves the store unchanged.
\* So no docstatus returns to 0 and no document is submitted twice.
C2_SubmitStep ==
    LET c == last' IN
    /\ \A n \in DOMAIN invoices \cap DOMAIN invoices' :
          invoices'[n].docstatus # invoices[n].docstatus
          => /\ invoices[n].docstatus = 0
             /\ invoices'[n].docstatus = 1
             /\ c.op = "submit_invoice" /\ c.name = n /\ c.err = ""
    /\ (c.op = "submit_invoice" /\ c.err = "")
          => /\ c.name \in DOMAIN invoices
             /\ invoices[c.name].docstatus = 0
             /\ invoices' = [invoices EXCEPT ![c.name].docstatus = 1]
    /\ (c.op = "submit_invoice" /\ c.name \in DOMAIN invoices
            /\ invoices[c.name].docstatus \in {1, 2})
          => c.err # "" /\ invoices' = invoices

C2_SubmitOnlyDraftsOnce == [][C2_SubmitStep]_vars

C2_Witness_ResubmitRejected ==
    /\ last.op = "submit_invoice"
    /\ last.err = "ValidationError"
    /\ last.name \in DOMAIN invoices
    /\ invoices[last.name].docstatus = 1

\* C3: a mutating endpoint called by a user who lacks the corresponding
\* permission raises an error and leaves the invoice store unchanged.
C3_DeniedStep ==
    LET c == last' IN
    (c.op \in MutatingOps /\ ~has_permission(c.user, RequiredPtype(c.op)))
        => c.err # "" /\ invoices' = invoices

C3_NoWriteWithoutPermission == [][C3_DeniedStep]_vars

\* C7: create_invoice_form stores total_commissions_and_taxes = C + C * t / 100
\* with C = grand_total * c / 100 (here times 10000), where c and t are the
\* payload's commission_rate and tax_rate whenever the payload carries them,
\* and the defaults 5 and 15 only when it omits them.
ClaimedRate(o, default) == IF o # None THEN o[1] ELSE default

C7_RatesFromPayload ==
    (last.op = "create_invoice_form" /\ last.err = "")
        => LET doc == invoices[last.name]
               c == ClaimedRate(last.data.commission_rate, 5)
               t == ClaimedRate(last.data.tax_rate, 15)
           IN  doc.total_commissions_and_taxes
                   = doc.grand_total * c * 100 + doc.grand_total * c * t

\* C8: a call with a missing required input raises an error and creates or
\* modifies no document.
MissingInput(c) ==
    \/ /\ c.op \in {"get_invoice_details", "update_invoice", "submit_invoice",
                    "delete_invoice"}
       /\ c.name = 0
    \/ /\ c.op = "create_invoice_form"
       /\ \/ c.data.posting_date = None
          \/ c.data.supplier = None
          \/ c.data.items = None
          \/ c.data.items = Some(<<>>)

C8_MissingStep ==
    MissingInput(last') => /\ last'.err # ""
                           /\ invoices' = invoices
                           /\ nextName' = nextName

C8_MissingInputRaises == [][C8_MissingStep]_vars

C8_Witness_EmptyItemsRejected ==
    /\ last.op = "create_invoice_form"
    /\ last.data.posting_date # None /\ last.data.supplier # None
    /\ last.data.items = Some(<<>>)
    /\ last.err = "ValidationError"
    /\ invoices # <<>>

\* C9: a successful update_invoice changes only posting_date, supplier,
\* supplier_name and the items table of the named invoice: a scalar keeps its
\* value when the payload has no non-empty value for it, the items table is
\* replaced in full by the payload's rows exactly when the payload's items is
\* a list, and docstatus and every other invoice are unchanged.
ClaimedRow(it) ==
    [total |-> ClaimedTotal(it), qty |-> ClaimedQty(it), price |-> ClaimedPrice(it)]

C9_UpdateStep ==
    LET c == last' IN
    (c.op = "update_invoice" /\ c.err = "")
    => /\ c.name \in DOMAIN invoices
       /\ DOMAIN invoices' = DOMAIN invoices
       /\ nextName' = nextName
       /\ \A n \in DOMAIN invoices \ {c.name} : invoices'[n] = invoices[n]
       /\ LET old == invoices[c.name]
              new == invoices'[c.name]
              d == c.data
          IN  /\ new.docstatus = old.docstatus
              /\ new.grand_total = old.grand_total
              /\ new.total_commissions_and_taxes = old.total_commissions_and_taxes
              /\ new.posting_date =
                    IF d.posting_date \in {None, Some(0)} THEN old.posting_date
                    ELSE d.posting_date[1]
              /\ new.supplier =
                    IF d.supplier \in {None, Some("")} THEN old.supplier
                    ELSE d.supplier[1]
              /\ new.supplier_name =
                    IF d.supplier_name \in {None, Some(<<>>)} THEN old.supplier_name
                    ELSE d.supplier_name[1]
              /\ IF d.items = None
                 THEN new.items = old.items
                 ELSE new.items = [i \in 1..Len(d.items[1]) |-> ClaimedRow(d.items[1][i])]

C9_UpdateFrame == [][C9_UpdateStep]_vars

C9_Witness_ItemsReplacedOthersKept ==
    /\ last.op = "update_invoice" /\ last.err = ""
    /\ last.data.items = Some(<<>>)
    /\ last.data.supplier = None
    /\ Cardinality(DOMAIN invoices) >= 2
    /\ invoices[last.name].items = <<>>
    /\ invoices[last.name].grand_total > 0

----------------------------------------------------------------------------
\* SpecInvoices: get_invoices over a store that does not change, by single
\* requests and by a client that pages through a listing.

\* A document as create_invoice_form stores it for <<ItemA>>.
QueryDoc(posting_date, supplier, supplier_name) ==
    [items |-> <<CreateRow(ItemA)>>, grand_total |-> 6,
     posting_date |-> posting_date, supplier |-> supplier,
     supplier_name |-> supplier_name,
     total_commissions_and_taxes |-> 3450, docstatus |-> 0]

QueryDocs ==
    { QueryDoc(1, "S1", <<"a">>), QueryDoc(2, "S1", <<"B">>),
      QueryDoc(2, "S2", <<"a", "b">>), QueryDoc(1, "S2", <<>>) }

QueryFilters ==
    { <<None, None, None>>, <<Some(2), None, None>>, <<None, Some(1), None>>,
      <<None, None, Some("S1")>>, <<None, None, Some("")>>,
      <<Some(2), None, Some("S1")>> }

SingleFilters ==
    { <<None, None, None>>, <<None, Some(1), Some("")>>, <<Some(2), None, Some("S1")>> }

QuerySearches == { None, Some(<<"a">>), Some(<<" ", "b", " ">>) }

InitInvoices ==
    /\ \E k \in 0..MaxRows : invoices \in [1..k -> QueryDocs] /\ nextName = k + 1
    /\ lookup = NoLookup
    /\ last = NoCall
    /\ pager = NoPager

GetInvoices ==
    /\ pager.phase = "idle"
    /\ \E user \in {"manager", "guest"}, f \in SingleFilters, page \in 1..2,
          page_size \in 1..2, search \in QuerySearches :
          get_invoices(user, ListQuery(f[1], f[2], f[3], PyInt(page), PyInt(page_size), search))

\* The client asks for page 1 of a listing, without a search text.
PagerStart ==
    /\ pager.phase = "idle"
    /\ \E f \in QueryFilters, page_size \in 1..3 :
          pager' = [page |-> 1,
                    q |-> ListQuery(f[1], f[2], f[3], PyInt(1), PyInt(page_size), None),
                    total_count |-> 0, phase |-> "running", got |-> <<>>]
    /\ last' = NoCall
    /\ UNCHANGED <<invoices, nextName, lookup>>

\* The client requests the page it is at, keeps the rows, and goes on to the
\* next page while has_more is true.
PagerStep ==
    /\ pager.phase = "running"
    /\ pager.page <= MaxRows + 2
    /\ LET q == [pager.q EXCEPT !.page = PyInt(pager.page)]
           r == GetInvoicesResponse(q)
       IN  /\ has_permission("manager", "read")
           /\ last' = Reply(Call("get_invoices", "manager", 0, q), "", r)
           /\ pager' = [pager EXCEPT !.got = @ \o r.rows,
                                     !.total_count = r.total_count,
                                     !.page = IF r.has_more THEN @ + 1 ELSE @,
                                     !.phase = IF r.has_more THEN "running" ELSE "done"]
    /\ UNCHANGED <<invoices, nextName, lookup>>

NextInvoices == GetInvoices \/ PagerStart \/ PagerStep

SpecInvoices == InitInvoices /\ [][NextInvoices]_vars

\* C4: has_more is true exactly when at least one invoice that matches the
\* request (the filters, and the search text when given) lies beyond the
\* current page.
C4_HasMoreExact ==
    (last.op = "get_invoices" /\ last.err = "")
    => LET q == last.data
           r == last.out
           ordered == NewestFirst(Filtered(q))
           beyond == {i \in 1..Len(ordered) :
                        /\ i > r.start + r.page_size
                        /\ TruthySeq(q.search) => SearchHit(ordered[i], q.search)}
       IN  r.has_more = (beyond # {})

\* C10: paging through get_invoices without a search text, with a fixed
\* page_size, ends within the pages the listing needs, returns every invoice
\* that matches the filters exactly once, and total_count is the number of
\* invoices returned.
PagesNeeded(n, page_size) ==
    IF n = 0 THEN 1 ELSE (n + page_size - 1) \div page_size

----------------------------------------------------------------------------
\* SpecLookup: get_supplier, get_customer and get_items over tables that do
\* not change.

SupplierPool ==
    { [name |-> <<"a">>, supplier_name |-> <<"A", "b">>, is_farmer |-> 1],
      [name |-> <<"b">>, supplier_name |-> <<"b", "a">>, is_farmer |-> 1],
      [name |-> <<"i", "a">>, supplier_name |-> <<>>, is_farmer |-> 1],
      [name |-> <<"a", "b">>, supplier_name |-> <<"a">>, is_farmer |-> 0] }

CustomerPool ==
    { [name |-> <<"a">>, customer_name |-> <<"B">>],
      [name |-> <<"b">>, customer_name |-> <<"b">>],
      [name |-> <<"i">>, customer_name |-> <<"A", " ", "b">>],
      [name |-> <<"x">>, customer_name |-> <<>>] }

ItemPool ==
    { [name |-> <<"a">>, item_name |-> <<"A", "b">>, disabled |-> 0, item_code |-> <<"a">>],
      [name |-> <<"b">>, item_name |-> <<"b", "a">>, disabled |-> 0, item_code |-> <<"b">>],
      [name |-> <<"i">>, item_name |-> <<>>, disabled |-> 0, item_code |-> <<"i", "a">>],
      [name |-> <<"a", "b">>, item_name |-> <<"a">>, disabled |-> 1, item_code |-> <<"a", "b">>] }

Tables(pool) == {T \in SUBSET pool : Cardinality(T) <= MaxRows}

LookupSearches == { None, Some(<<"a">>), Some(<<" ">>), Some(<<"B", " ">>) }

LookupQueries ==
    { PageQuery(PyInt(page), PyInt(page_size), search) :
        page \in 1..3, page_size \in 1..2, search \in LookupSearches }

InitLookup ==
    /\ invoices = <<>> /\ nextName = 1
    /\ \/ \E T \in Tables(SupplierPool) : lookup = [NoLookup EXCEPT !.Supplier = T]
       \/ \E T \in Tables(CustomerPool) : lookup = [NoLookup EXCEPT !.Customer = T]
       \/ \E T \in Tables(ItemPool) : lookup = [NoLookup EXCEPT !.Item = T]
    /\ last = NoCall
    /\ pager = NoPager

GetSupplier == \E user \in {"manager", "guest"}, q \in LookupQueries : get_supplier(user, q)
GetCustomer == \E user \in {"manager", "guest"}, q \in LookupQueries : get_customer(user, q)
GetItems == \E user \in {"manager", "guest"}, q \in LookupQueries : get_items(user, q)

NextLookup == GetSupplier \/ GetCustomer \/ GetItems

SpecLookup == InitLookup /\ [][NextLookup]_vars

LookupOps == {"get_supplier", "get_customer", "get_items"}

\* The rows that match a lookup's filters and search.
Matching(op, search) ==
    CASE op = "get_supplier" -> SelectedSuppliers(search)
      [] op = "get_customer" -> SelectedCustomers(search)
      [] op = "get_items" -> SelectedItems(search)

\* C5: a lookup response holds at most page_size rows, and has_more is true
\* exactly when the number of rows matching the filters and the search
\* exceeds start + page_size, with start = (page - 1) * page_size.
C5_LookupHasMoreExact ==
    (last.op \in LookupOps /\ last.err = "")
    => LET r == last.out
       IN  /\ Len(r.rows) <= r.page_size
           /\ r.start = (r.page - 1) * r.page_size
           /\ r.has_more
                = (Cardinality(Matching(last.op, last.data.search)) > r.start + r.page_size)

C5_Witness_SearchedSecondPageHasMore ==
    /\ last.op = "get_items" /\ last.err = ""
    /\ last.data.search = Some(<<"a">>)
    /\ last.out.page = 2
    /\ last.out.has_more
    /\ Len(last.out.rows) = 1

----------------------------------------------------------------------------
\* SpecClamp: the list endpoints called with any page and page_size.

PageInputs ==
    { PyInt(0 - 1), PyInt(0), PyInt(1), PyInt(3), PyNone, PyStr(<<>>), PyStr(<<"x">>),
      PyStr(<<"2">>), PyStr(<<"-", "2">>), PyStr(<<" ", "2", ".", "9">>) }

SizeInputs ==
    { PyInt(0 - 5), PyInt(0), PyInt(1), PyInt(100), PyInt(101), PyInt(200), PyInt(201),
      PyNone, PyStr(<<"a", "b">>), PyStr(<<"1", "5", "0">>), PyStr(<<"9", "9", "9">>),
      PyStr(<<"1", ".", "5", "x">>) }

InitClamp ==
    /\ invoices = <<QueryDoc(1, "S1", <<"a">>), QueryDoc(2, "S2", <<"B">>)>>
    /\ nextName = 3
    /\ lookup = [Supplier |-> {r \in SupplierPool : r.name # <<"b">>},
                 Customer |-> {r \in CustomerPool : r.name # <<"b">>},
                 Item |-> {r \in ItemPool : r.name # <<"b">>}]
    /\ last = NoCall
    /\ pager = NoPager

ClampInvoices == \E page \in PageInputs, page_size \in SizeInputs :
    get_invoices("manager", ListQuery(None, None, None, page, page_size, None))
ClampSupplier == \E page \in PageInputs, page_size \in SizeInputs :
    get_supplier("manager", PageQuery(page, page_size, None))
ClampCustomer == \E page \in PageInputs, page_size \in SizeInputs :
    get_customer("manager", PageQuery(page, page_size, None))
ClampItems == \E page \in PageInputs, page_size \in SizeInputs :
    get_items("manager", PageQuery(page, page_size, None))

NextClamp == ClampInvoices \/ ClampSupplier \/ ClampCustomer \/ ClampItems

SpecClamp == InitClamp /\ [][NextClamp]_vars

\* None, or a string with no digit in it.
NonNumeric(x) == x.t = "none" \/ (x.t = "str" /\ \A i \in 1..Len(x.s) : ~IsDigit(x.s[i]))

\* C6: whatever page and page_size a list endpoint is given, the response's
\* page is at least 1, its page_size lies in 1..100 (get_invoices) or 1..200
\* (the lookups), and the offset (page - 1) * page_size is not negative; zero,
\* negative and non-numeric inputs give 1, an int in range is kept, an int
\* above the cap gives the cap.
C6_PageAndSizeClamped ==
    (last.op \in LookupOps \cup {"get_invoices"} /\ last.err = "")
    => LET r == last.out
           p == last.data.page
           z == last.data.page_size
           cap == IF last.op = "get_invoices" THEN 100 ELSE 200
       IN  /\ r.page >= 1
           /\ r.page_size >= 1 /\ r.page_size <= cap
           /\ r.start = (r.page - 1) * r.page_size /\ r.start >= 0
           /\ (NonNumeric(p) \/ (p.t = "int" /\ p.v <= 0)) => r.page = 1
           /\ (NonNumeric(z) \/ (z.t = "int" /\ z.v <= 0)) => r.page_size = 1
           /\ (p.t = "int" /\ p.v >= 1) => r.page = p.v
           /\ (z.t = "int" /\ z.v >= 1) => r.page_size = (IF z.v > cap THEN cap ELSE z.v)

C6_Witness_OversizedAndNonNumeric ==
    /\ last.op = "get_supplier" /\ last.err = ""
    /\ last.data.page = PyStr(<<"x">>)
    /\ last.data.page_size = PyInt(201)
    /\ last.out.page = 1
    /\ last.out.page_size = 200

====
